---- MODULE Spec2Model ----
(***************************************************************************)
(* Model of the acquisition scheduler of src/main.py: BoardInit, the tick  *)
(* function board_update with its timeout recovery, the GUI main loop that *)
(* re-runs it, and the except/finally exit of main.                        *)
(*                                                                         *)
(* The device driver (brainflow), the metric sources and the GUI event     *)
(* loop are collaborators: each call into them is a step whose outcome is  *)
(* chosen among "returns" and "raises".  Python local variables of main,   *)
(* BoardInit and board_update are separate model variables, because the    *)
(* code binds them in separate scopes.                                     *)
(***************************************************************************)
EXTENDS Integers, Sequences, FiniteSets, TLC

\* ---- bounds of the model ----
MaxTicks == 2          \* calls of board_update explored (line 194 + timer ticks)
MaxVal == 2            \* metric values are drawn from 1..MaxVal

\* ---- program constants ----
RetryAttempts_4 == 3 + 1    \* the loop written as range(4)
RetryAttempts == 3     \* main.py:162  for i in range(3)

Keys == {"osc_heart_bpm", "osc_respiration_bpm"}
Vals == 1..MaxVal

\* a Metric Record: a dict from some of the keys to values
MetricRecords == UNION {[K -> Vals] : K \in SUBSET Keys}

NoLogics == [board |-> 0, srcs |-> <<>>]

\* logics list built by BoardInit (main.py:108-119)
LogicsFor(board, muse) ==
    [board |-> board,
     srcs  |-> IF muse THEN <<"Telemetry", "Focus_Relax", "HeartRate">>
                       ELSE <<"Telemetry", "Focus_Relax">>]

\* ---- collections.ChainMap, as dict(ChainMap(*data_dicts)) uses it ----
\* ChainMap.__iter__ / keys(): the union of the keys of all maps
ChainMapKeys(maps) == UNION {DOMAIN maps[j] : j \in 1..Len(maps)}

\* ChainMap.__getitem__: search the maps in order, return the first hit
RECURSIVE ChainMapGetFrom(_, _, _)
ChainMapGetFrom(maps, k, j) ==
    IF k \in DOMAIN maps[j] THEN maps[j][k] ELSE ChainMapGetFrom(maps, k, j + 1)

\* the same lookup searching from the end of the list (dict.update order)
RECURSIVE LastMapGetFrom(_, _, _)
LastMapGetFrom(maps, k, j) ==
    IF k \in DOMAIN maps[j] THEN maps[j][k] ELSE LastMapGetFrom(maps, k, j - 1)

ChainMapGet_last(maps, k) == LastMapGetFrom(maps, k, Len(maps))
ChainMapGet(maps, k) == ChainMapGetFrom(maps, k, 1)

\* full_dict = dict(ChainMap(*data_dicts))   (main.py:140)
DictOfChainMap(maps) == [k \in ChainMapKeys(maps) |-> ChainMapGet(maps, k)]

VARIABLES
    pc,          \* control position of the main thread
    isMuse,      \* master_board_id in (MUSE_2_BOARD, MUSE_S_BOARD)
    caller,      \* who called BoardInit: "main" (line 130) or "retry" (line 164)
    inLoop,      \* board_update was called from update() (line 255), not line 194
    nextId,      \* identity of the next BoardShim object constructed
    live,        \* sessions prepared and not released
    streaming,   \* sessions whose stream is started
    biBoard,     \* BoardInit's local  board     (0: unbound)
    biLogics,    \* BoardInit's local  logics
    mainBoard,   \* main's local  board          (0: unbound)
    mainLogics,  \* main's local  logics
    updBoard,    \* board_update's parameter  board
    updLogics,   \* board_update's parameter  logics
    dataDicts,   \* records returned so far by map(get_data_dict, logics)
    invoked,     \* sources whose get_data_dict was called in this tick
    fullDict,    \* board_update's local full_dict: <<>> unbound, <<d>> bound
    dicti,       \* main's local dicti (line 194): <<>> unbound, <<d>> bound
    updDicti,    \* update's local dicti (line 255): <<>> unbound, <<d>> bound
    i,           \* loop variable of the retry loop
    attempts,    \* BoardInit calls made for the current timeout event
    recovery,    \* "none", "active", "succeeded", "exhausted", "aborted"
    result,      \* how the current/last board_update ended
    oscSent,     \* messages sent through osc_client, in order
    eventMark,   \* Len(oscSent) when the current timeout event was raised
    lastInit,    \* session returned by the last BoardInit that returned
    ticks        \* number of board_update calls so far

vars == <<pc, isMuse, caller, inLoop, nextId, live, streaming, biBoard,
          biLogics, mainBoard, mainLogics, updBoard, updLogics, dataDicts,
          invoked, fullDict, dicti, updDicti, i, attempts, recovery, result, oscSent,
          eventMark, lastInit, ticks>>

sessionVars == <<nextId, live, streaming>>
biVars      == <<biBoard, biLogics>>
mainVars    == <<mainBoard, mainLogics>>
updVars     == <<updBoard, updLogics>>
tickVars    == <<dataDicts, invoked, fullDict>>
eventVars   == <<i, attempts, recovery, eventMark>>
retVars     == <<dicti, updDicti>>

\* ---- state of one HeartRate instance (src/logic/heartrate.py) ----
VARIABLES
    cfgEmaDecay, \* args.ema_decay, a fraction <<numerator, denominator>>
    cfgRefresh,  \* args.refresh_rate
    biEmaDecay,  \* BoardInit's local ema_decay (main.py:99), <<>> before it runs
    hrPc,        \* "new": not constructed, "ready": constructed
    hrDecay,     \* self.ema_decay, a fraction
    hrState,     \* self.current_values: <<>> is None, else the 4 values
    hrPrev,      \* self.current_values before the last call that returned
    hrRaws,      \* target_values of the calls that returned, in order
    hrRet,       \* <<>>, or <<ret_dict>> returned by the last call
    hrCalls,     \* number of get_data_dict calls made
    hrOutcome    \* "none", "returned" or "raised": how the last call ended

hrVars == <<cfgEmaDecay, cfgRefresh, biEmaDecay, hrPc, hrDecay, hrState,
            hrPrev, hrRaws, hrRet, hrCalls, hrOutcome>>

\* ---- BoardInit's startup timing and HeartRate's window (main.py:97-126,
\* ---- heartrate.py:17-22) ----
VARIABLES
    wPc,         \* "params", "logics", "start", "streaming", "ticked"
    wArgsWindow, \* args.window_seconds
    wMuse,       \* the board is a Muse 2 / Muse S
    wEegRate,    \* sampling rate of the default preset
    wRate,       \* self.ppg_sampling_rate
    wFft,        \* fft_size
    wHeartWs,    \* HeartRate.window_seconds (0: no HeartRate source)
    wHeartMax,   \* HeartRate.max_sample_size
    wStartup,    \* BoardInit's local startup_time
    wStreaming,  \* start_stream has been called
    wSlept,      \* seconds slept since start_stream
    wPartial     \* a pull of the first tick found fewer samples than its window

wVars == <<wPc, wArgsWindow, wMuse, wEegRate, wRate, wFft, wHeartWs,
           wHeartMax, wStartup, wStreaming, wSlept, wPartial>>

\* ---- one call of HeartRate.estimate_respiration (heartrate.py:28-51) ----
VARIABLES
    rPc,         \* "input", "done" or "raised"
    rRate,       \* self.ppg_sampling_rate
    rN,          \* len(resp_signal)
    rFftLen,     \* len(fft_data)
    rMags,       \* np.abs(fft_data): rMags[k + 1] is the magnitude of bin k
    rPeak,       \* index of the selected bin (-1: none)
    rBpm         \* the value returned, a fraction <<num, den>>, <<>> before

rVars == <<rPc, rRate, rN, rFftLen, rMags, rPeak, rBpm>>

\* the variables the scheduler model of main.py never touches
auxVars == <<hrVars, wVars, rVars>>

\* BoardInit's timing is not part of a run of the other models
WIdle ==
    /\ wPc = "params"
    /\ wArgsWindow = 2
    /\ wMuse = TRUE
    /\ wEegRate = 1
    /\ wRate = 64
    /\ wFft = 1024
    /\ wHeartWs = 0
    /\ wHeartMax = 0
    /\ wStartup = 0
    /\ wStreaming = FALSE
    /\ wSlept = 0
    /\ wPartial = FALSE

\* estimate_respiration is not called in a run of the other models
RIdle ==
    /\ rPc = "input"
    /\ rRate = 64
    /\ rN = 0
    /\ rFftLen = 0
    /\ rMags = <<>>
    /\ rPeak = -1
    /\ rBpm = <<>>

\* the HeartRate instance is not part of a run of the scheduler model
HrIdle ==
    /\ cfgEmaDecay = <<1, 1>>
    /\ cfgRefresh = 60
    /\ biEmaDecay = <<>>
    /\ hrPc = "new"
    /\ hrDecay = <<>>
    /\ hrState = <<>>
    /\ hrPrev = <<>>
    /\ hrRaws = <<>>
    /\ hrRet = <<>>
    /\ hrCalls = 0
    /\ hrOutcome = "none"

AuxIdle == HrIdle /\ WIdle /\ RIdle

\* a function's frame is gone once it returns or an exception leaves it
LeaveBoardInit == biBoard' = 0 /\ biLogics' = NoLogics
LeaveBoardUpdate ==
    /\ updBoard' = 0
    /\ updLogics' = NoLogics
    /\ dataDicts' = <<>>
    /\ invoked' = <<>>
    /\ fullDict' = <<>>

ConnectionStatus(b) == [path |-> "ConnectionStatus", val |-> b]

BoardInitPcs   == {"bi_prepare", "bi_logics", "bi_start"}
BoardUpdatePcs == {"bu_invoke", "bu_send", "bu_sleep", "bu_handler",
                   "bu_retry", "bu_return"}

\* the main thread is inside the callback update() run by the GUI main loop
InCallback ==
    /\ inLoop
    /\ \/ pc \in BoardUpdatePcs \cup {"upd_plot"}
       \/ pc \in BoardInitPcs /\ caller = "retry"

\* Where control goes when exception exc leaves board_update (or update()).
\* In the main loop the callback wrapper of the GUI toolkit reports the
\* exception and the loop goes on; at line 194 it reaches main's
\* try/except KeyboardInterrupt/finally (main.py:264-269).
EscapePc(exc) ==
    IF InCallback THEN "mainloop"
    ELSE IF exc = "KeyboardInterrupt" THEN "except_kbd" ELSE "finally"

Init ==
    /\ pc = "bi_prepare"          \* main.py:130  BoardInit(args)
    /\ isMuse \in BOOLEAN
    /\ caller = "main"
    /\ inLoop = FALSE
    /\ nextId = 1
    /\ live = {}
    /\ streaming = {}
    /\ biBoard = 0
    /\ biLogics = NoLogics
    /\ mainBoard = 0
    /\ mainLogics = NoLogics
    /\ updBoard = 0
    /\ updLogics = NoLogics
    /\ dataDicts = <<>>
    /\ invoked = <<>>
    /\ fullDict = <<>>
    /\ dicti = <<>>
    /\ updDicti = <<>>
    /\ i = 0
    /\ attempts = 0
    /\ recovery = "none"
    /\ result = "none"
    /\ oscSent = <<>>
    /\ eventMark = 0
    /\ lastInit = 0
    /\ ticks = 0
    /\ AuxIdle


\* ------------------------------------------------------------------------
\* BoardInit (main.py:95-126)
\* ------------------------------------------------------------------------

\* A BrainFlowError raised inside BoardInit: line 166 catches it when
\* BoardInit was called from the retry loop, and the loop goes to its next i;
\* raised by the call of line 130 it leaves main's try block through finally.
BoardInitRaises ==
    /\ LeaveBoardInit
    /\ IF caller = "retry"
       THEN pc' = "bu_retry" /\ i' = i + 1
       ELSE pc' = "finally" /\ i' = i

\* board = BoardShim(...); board.prepare_session()   (main.py:103-105)
BI_Prepare ==
    /\ pc = "bi_prepare"
    /\ nextId' = nextId + 1
    /\ \/ /\ live' = live \cup {nextId}
          /\ biBoard' = nextId
          /\ biLogics' = NoLogics
          /\ pc' = "bi_logics"
          /\ i' = i
       \/ /\ live' = live
          /\ BoardInitRaises
    /\ UNCHANGED <<isMuse, caller, inLoop, streaming, mainVars, updVars,
                   tickVars, retVars, attempts, recovery, eventMark, result,
                   oscSent, lastInit, ticks>>
    /\ UNCHANGED auxVars

\* logics = [...]; config_board('p52'); HeartRate(board)   (main.py:108-119)
BI_Logics ==
    /\ pc = "bi_logics"
    /\ \/ /\ biLogics' = LogicsFor(biBoard, isMuse)
          /\ biBoard' = biBoard
          /\ pc' = "bi_start"
          /\ i' = i
       \/ /\ isMuse                 \* config_board raises BrainFlowError
          /\ BoardInitRaises
    /\ UNCHANGED <<isMuse, caller, inLoop, sessionVars, mainVars, updVars,
                   tickVars, retVars, attempts, recovery, eventMark, result,
                   oscSent, lastInit, ticks>>
    /\ UNCHANGED auxVars

\* board.start_stream(); time.sleep(startup_time); return   (main.py:121-126)
\* The returned triple is bound by the caller: to main's locals at line 130,
\* to board_update's own parameters at line 164 (followed by break).
BI_Start ==
    /\ pc = "bi_start"
    /\ \/ /\ streaming' = streaming \cup {biBoard}
          /\ lastInit' = biBoard
          /\ LeaveBoardInit
          /\ i' = i
          /\ IF caller = "main"
             THEN /\ mainBoard' = biBoard
                  /\ mainLogics' = biLogics
                  /\ pc' = "main_first"
                  /\ UNCHANGED <<updVars, recovery>>
             ELSE /\ updBoard' = biBoard
                  /\ updLogics' = biLogics
                  /\ recovery' = "succeeded"
                  /\ pc' = "bu_return"
                  /\ UNCHANGED mainVars
       \/ /\ BoardInitRaises
          /\ UNCHANGED <<streaming, lastInit, mainVars, updVars, recovery>>
    /\ UNCHANGED <<isMuse, caller, inLoop, nextId, live, tickVars, retVars,
                   attempts, eventMark, result, oscSent, ticks>>
    /\ UNCHANGED auxVars

\* ------------------------------------------------------------------------
\* board_update (main.py:132-169)
\* ------------------------------------------------------------------------

\* exception exc leaves board_update
RaiseFromUpdate(exc) ==
    /\ pc' = EscapePc(exc)
    /\ result' = exc
    /\ LeaveBoardUpdate

\* the call binds the parameters to main's variables (main.py:194, 255)
EnterBoardUpdate(fromLoop) ==
    /\ updBoard' = mainBoard
    /\ updLogics' = mainLogics
    /\ inLoop' = fromLoop
    /\ dataDicts' = <<>>
    /\ invoked' = <<>>
    /\ fullDict' = <<>>
    /\ i' = 0
    /\ attempts' = 0
    /\ recovery' = "none"
    /\ result' = "running"
    /\ eventMark' = Len(oscSent)
    /\ ticks' = ticks + 1
    /\ pc' = "bu_invoke"
    /\ UNCHANGED <<isMuse, caller, sessionVars, biVars, mainVars, retVars,
                   oscSent, lastInit>>
    /\ UNCHANGED auxVars

\* dicti = board_update(board, logics, refresh_rate_hz)   (main.py:194)
MainFirstTick ==
    /\ pc = "main_first"
    /\ EnterBoardUpdate(FALSE)

\* update(a), run by the animation timer inside root.mainloop()
\* (main.py:254-255, 260-261)
LoopTick ==
    /\ pc = "mainloop"
    /\ ticks < MaxTicks
    /\ EnterBoardUpdate(TRUE)

\* BU_Invoke with each get_data_dict call wrapped in its own try/except: a
\* source that raises is skipped and the tick goes on with the next source
BU_Invoke_skip ==
    /\ pc = "bu_invoke"
    /\ Len(invoked) < Len(updLogics.srcs)
    /\ invoked' = Append(invoked, updLogics.srcs[Len(invoked) + 1])
    /\ \/ /\ updLogics.board \in streaming
          /\ \E r \in MetricRecords : dataDicts' = Append(dataDicts, r)
       \/ dataDicts' = dataDicts
    /\ pc' = "bu_invoke"
    /\ UNCHANGED <<isMuse, caller, inLoop, sessionVars, biVars, mainVars,
                   updVars, fullDict, retVars, eventVars, result, oscSent,
                   lastInit, ticks>>
    /\ UNCHANGED auxVars

\* one step of list(map(lambda logic: logic.get_data_dict(), logics))
\* (main.py:139): the next source in list order is invoked; it returns a
\* record (only a started stream delivers data), or raises TimeoutError,
\* which line 154 catches, or raises another error, which leaves board_update.
BU_Invoke ==
    /\ pc = "bu_invoke"
    /\ Len(invoked) < Len(updLogics.srcs)
    /\ \/ /\ updLogics.board \in streaming
          /\ \E r \in MetricRecords : dataDicts' = Append(dataDicts, r)
          /\ invoked' = Append(invoked, updLogics.srcs[Len(invoked) + 1])
          /\ pc' = "bu_invoke"
          /\ UNCHANGED <<updVars, fullDict, result, recovery, eventMark>>
       \/ /\ invoked' = Append(invoked, updLogics.srcs[Len(invoked) + 1])
          /\ pc' = "bu_handler"
          /\ recovery' = "active"
          /\ eventMark' = Len(oscSent)
          /\ UNCHANGED <<updVars, dataDicts, fullDict, result>>
       \/ /\ RaiseFromUpdate("BrainFlowError")
          /\ UNCHANGED <<recovery, eventMark>>
    /\ UNCHANGED <<isMuse, caller, inLoop, sessionVars, biVars, mainVars,
                   retVars, i, attempts, oscSent, lastInit, ticks>>
    /\ UNCHANGED auxVars

\* full_dict = dict(ChainMap(*data_dicts)), once map() is exhausted (main.py:140)
BU_Merge ==
    /\ pc = "bu_invoke"
    /\ Len(invoked) = Len(updLogics.srcs)
    /\ fullDict' = <<DictOfChainMap(dataDicts)>>
    /\ pc' = "bu_send"
    /\ UNCHANGED <<isMuse, caller, inLoop, sessionVars, biVars, mainVars,
                   updVars, dataDicts, invoked, retVars, eventVars, result,
                   oscSent, lastInit, ticks>>
    /\ UNCHANGED auxVars

\* "Send messages from executed logic" (main.py:142-145): each key and value
\* is written to the debug log; nothing is sent through osc_client.
BU_Send ==
    /\ pc = "bu_send"
    /\ pc' = "bu_sleep"
    /\ UNCHANGED <<isMuse, caller, inLoop, sessionVars, biVars, mainVars,
                   updVars, tickVars, retVars, eventVars, result, oscSent,
                   lastInit, ticks>>
    /\ UNCHANGED auxVars

\* time.sleep(max(0, 1/refresh_rate_hz - execution_time))   (main.py:147-152)
BU_Sleep ==
    /\ pc = "bu_sleep"
    /\ pc' = "bu_return"
    /\ UNCHANGED <<isMuse, caller, inLoop, sessionVars, biVars, mainVars,
                   updVars, tickVars, retVars, eventVars, result, oscSent,
                   lastInit, ticks>>
    /\ UNCHANGED auxVars

\* except TimeoutError (main.py:154-159): signal the disconnect, release the
\* session held by the parameter board.  Releasing a session that is not
\* live either does nothing or raises BrainFlowError (the driver's choice).
BU_Handler ==
    /\ pc = "bu_handler"
    /\ oscSent' = Append(oscSent, ConnectionStatus(FALSE))
    /\ \/ /\ live' = live \ {updBoard}
          /\ streaming' = streaming \ {updBoard}
          /\ i' = 0
          /\ pc' = "bu_retry"
          /\ UNCHANGED <<updVars, tickVars, result, recovery>>
       \/ /\ updBoard \notin live
          /\ RaiseFromUpdate("BrainFlowError")
          /\ recovery' = "aborted"
          /\ UNCHANGED <<live, streaming, i>>
    /\ UNCHANGED <<isMuse, caller, inLoop, nextId, biVars, mainVars, retVars,
                   attempts, eventMark, lastInit, ticks>>
    /\ UNCHANGED auxVars

\* head of  for i in range(3): try: ... = BoardInit(args)   (main.py:162-164)
BU_Retry ==
    /\ pc = "bu_retry"
    /\ IF i < RetryAttempts
       THEN /\ attempts' = attempts + 1
            /\ caller' = "retry"
            /\ pc' = "bi_prepare"
            /\ UNCHANGED recovery
       ELSE /\ recovery' = "exhausted"
            /\ pc' = "bu_return"
            /\ UNCHANGED <<attempts, caller>>
    /\ UNCHANGED <<isMuse, inLoop, sessionVars, biVars, mainVars, updVars,
                   tickVars, retVars, i, eventMark, result, oscSent, lastInit,
                   ticks>>
    /\ UNCHANGED auxVars

\* return full_dict (main.py:169): UnboundLocalError when line 140 never ran;
\* otherwise the caller binds the value to its dicti (main.py:194, 255)
BU_Return ==
    /\ pc = "bu_return"
    /\ IF fullDict = <<>>
       THEN /\ RaiseFromUpdate("UnboundLocalError")
            /\ UNCHANGED retVars
       ELSE /\ result' = "returned"
            /\ LeaveBoardUpdate
            /\ IF inLoop
               THEN updDicti' = fullDict /\ dicti' = dicti /\ pc' = "upd_plot"
               ELSE dicti' = fullDict /\ updDicti' = updDicti /\ pc' = "main_setup"
    /\ UNCHANGED <<isMuse, caller, inLoop, sessionVars, biVars, mainVars,
                   eventVars, oscSent, lastInit, ticks>>
    /\ UNCHANGED auxVars

\* ------------------------------------------------------------------------
\* main (main.py:128-130, 171-269)
\* ------------------------------------------------------------------------

\* print the names, build the figure, the window and the animation
\* (main.py:195-260)
MainSetup ==
    /\ pc = "main_setup"
    /\ pc' = "mainloop"
    /\ UNCHANGED <<isMuse, caller, inLoop, sessionVars, biVars, mainVars,
                   updVars, tickVars, retVars, eventVars, result, oscSent,
                   lastInit, ticks>>
    /\ UNCHANGED auxVars

\* plt_update(dicti, linel, liner, linea); update() returns   (main.py:256)
UpdPlot ==
    /\ pc = "upd_plot"
    /\ pc' = "mainloop"
    /\ updDicti' = <<>>
    /\ UNCHANGED <<isMuse, caller, inLoop, sessionVars, biVars, mainVars,
                   updVars, tickVars, dicti, eventVars, result, oscSent,
                   lastInit, ticks>>
    /\ UNCHANGED auxVars

\* the Quit button: root.destroy(), root.mainloop() returns (main.py:248, 261)
\* and the try block ends without an exception
Quit ==
    /\ pc = "mainloop"
    /\ pc' = "finally"
    /\ UNCHANGED <<isMuse, caller, inLoop, sessionVars, biVars, mainVars,
                   updVars, tickVars, retVars, eventVars, result, oscSent,
                   lastInit, ticks>>
    /\ UNCHANGED auxVars

\* The operator's interrupt signal: KeyboardInterrupt raised at the current
\* position.  Inside a callback of the main loop it is reported like any
\* other exception of the callback; elsewhere it reaches line 264.
Interrupt ==
    /\ pc' = EscapePc("KeyboardInterrupt")
    /\ \/ /\ pc \in BoardInitPcs /\ caller = "main"
          /\ LeaveBoardInit
          /\ UNCHANGED <<updVars, tickVars, updDicti, result, recovery>>
       \/ /\ pc \in BoardInitPcs /\ caller = "retry"
          /\ LeaveBoardInit
          /\ LeaveBoardUpdate
          /\ result' = "KeyboardInterrupt"
          /\ recovery' = "aborted"
          /\ UNCHANGED updDicti
       \/ /\ pc \in BoardUpdatePcs
          /\ LeaveBoardUpdate
          /\ result' = "KeyboardInterrupt"
          /\ recovery' = IF recovery = "active" THEN "aborted" ELSE recovery
          /\ UNCHANGED <<biVars, updDicti>>
       \/ /\ pc = "upd_plot"
          /\ updDicti' = <<>>
          /\ UNCHANGED <<biVars, updVars, tickVars, result, recovery>>
       \/ /\ pc \in {"main_first", "main_setup", "mainloop"}
          /\ UNCHANGED <<biVars, updVars, tickVars, updDicti, result, recovery>>
    /\ UNCHANGED <<isMuse, caller, inLoop, sessionVars, mainVars, dicti, i,
                   attempts, eventMark, oscSent, lastInit, ticks>>
    /\ UNCHANGED auxVars

\* except KeyboardInterrupt: board.stop_stream()   (main.py:264-266)
\* board is main's variable; when it is unbound or its stream is not running
\* the call raises, and control goes on to finally all the same.
ExceptKbd ==
    /\ pc = "except_kbd"
    /\ streaming' = streaming \ {mainBoard}
    /\ pc' = "finally"
    /\ UNCHANGED <<isMuse, caller, inLoop, nextId, live, biVars, mainVars,
                   updVars, tickVars, retVars, eventVars, result, oscSent,
                   lastInit, ticks>>
    /\ UNCHANGED auxVars

\* finally: osc_client.send_message(ConnectionStatus, False);
\* board.release_session()   (main.py:267-269), on main's variable board:
\* unbound, it raises; bound, its session is released.  The process ends.
Finally ==
    /\ pc = "finally"
    /\ oscSent' = Append(oscSent, ConnectionStatus(FALSE))
    /\ live' = live \ {mainBoard}
    /\ streaming' = streaming \ {mainBoard}
    /\ pc' = "terminated"
    /\ UNCHANGED <<isMuse, caller, inLoop, nextId, biVars, mainVars, updVars,
                   tickVars, retVars, eventVars, result, lastInit, ticks>>
    /\ UNCHANGED auxVars

Next ==
    \/ BI_Prepare
    \/ BI_Logics
    \/ BI_Start
    \/ MainFirstTick
    \/ LoopTick
    \/ BU_Invoke
    \/ BU_Merge
    \/ BU_Send
    \/ BU_Sleep
    \/ BU_Handler
    \/ BU_Retry
    \/ BU_Return
    \/ MainSetup
    \/ UpdPlot
    \/ Quit
    \/ Interrupt
    \/ ExceptKbd
    \/ Finally

Spec == Init /\ [][Next]_vars

TypeOK ==
    /\ pc \in BoardInitPcs \cup BoardUpdatePcs
              \cup {"main_first", "main_setup", "upd_plot", "mainloop",
                    "except_kbd", "finally", "terminated"}
    /\ live \subseteq 1..(nextId - 1)
    /\ streaming \subseteq live
    /\ fullDict \in {<<>>} \cup {<<d>> : d \in MetricRecords}
    /\ i \in 0..RetryAttempts

\* ------------------------------------------------------------------------
\* Properties
\* ------------------------------------------------------------------------

\* ConnectionStatus False messages sent after the first n messages
FalseSince(n) ==
    Cardinality({j \in (n + 1)..Len(oscSent) : oscSent[j] = ConnectionStatus(FALSE)})

\* messages sent under path k after the first n messages
SentUnder(k, n) ==
    Cardinality({j \in (n + 1)..Len(oscSent) : oscSent[j].path = k})

\* the retry loop is running inside the current board_update call
InRetry == pc \in BoardInitPcs /\ caller = "retry"

\* C1: when a tick hits a timeout and a reinitialization attempt succeeds,
\* board_update completes without raising (an operator interrupt aside), so
\* the scheduler is back in STREAMING and the process goes on.
C1_RecoveredTickReturns ==
    recovery = "succeeded" => result \in {"running", "returned", "KeyboardInterrupt"}

\* C2: after a successful reinitialization, the session and source list every
\* later tick works on, and the session released at shutdown, are the ones
\* returned by that BoardInit.
C2_FreshSessionInUse ==
    (recovery = "succeeded" /\ lastInit # 0) =>
        /\ pc = "bu_invoke" => (updBoard = lastInit /\ updLogics.board = lastInit)
        /\ pc \in {"mainloop", "except_kbd", "finally"} =>
               (mainBoard = lastInit /\ mainLogics.board = lastInit)

\* C3: at most one session is live at any instant, exactly one while a tick
\* reads the device, and none is live when BoardInit prepares a new one.
C3_OneLiveSession ==
    /\ Cardinality(live) <= 1
    /\ pc = "bi_prepare" => live = {}
    /\ (pc = "bu_invoke" /\ recovery = "none") => Cardinality(live) = 1

\* C4: when the process has terminated, on whatever exit path, the
\* disconnection was signalled and no prepared session is left unreleased.
C4_ExitReleasesEverySession ==
    pc = "terminated" =>
        /\ FalseSince(0) >= 1
        /\ live = {}

\* C5: for one timeout event at most 3 calls of BoardInit are made: none
\* after the first that succeeds, exactly 3 when all fail with a device
\* error, and none after the third failure.
C5_BoundedRetries ==
    /\ attempts <= 3
    /\ recovery = "none" => attempts = 0
    /\ InRetry => attempts = i + 1
    /\ recovery = "succeeded" => (attempts = i + 1 /\ ~InRetry /\ pc # "bu_retry")
    /\ recovery = "exhausted" => (attempts = 3 /\ i = 3 /\ ~InRetry /\ pc # "bu_retry")

\* the three attempts of one event all failed and the loop was left
C5_Witness ==
    /\ recovery = "exhausted"
    /\ attempts = 3
    /\ pc = "bu_return"

\* C6: after a timeout whose 3 reinitialization attempts all failed, no
\* Aggregate Record exists for the tick and ConnectionStatus False has been
\* sent exactly once since the event, up to and including the process exit.
C6_LostSignalledOnce ==
    recovery = "exhausted" =>
        /\ fullDict = <<>>
        /\ result # "returned"
        /\ FalseSince(eventMark) = 1

C8_RecordPublishedBeforeSleep ==
    pc = "bu_sleep" =>
        \A k \in DOMAIN fullDict[1] : SentUnder(k, eventMark) = 1

\* C9: the publishing collaborator has received a connected (True) signal
\* once BoardInit has established a session, and the last signal it received
\* when the process has ended is disconnected (False).
C9_ConnectivitySignalled ==
    /\ lastInit # 0 => \E j \in 1..Len(oscSent) : oscSent[j] = ConnectionStatus(TRUE)
    /\ pc = "terminated" => oscSent[Len(oscSent)] = ConnectionStatus(FALSE)

\* C10: within a tick the sources are invoked once each in list order; a
\* record exists only when all of them returned, and it merges all their
\* records; when a source raised, no record exists for the tick, none is
\* returned to the caller and none is published.
C10_TickAllOrNothing ==
    /\ pc \in BoardUpdatePcs =>
          /\ Len(invoked) <= Len(updLogics.srcs)
          /\ \A j \in 1..Len(invoked) : invoked[j] = updLogics.srcs[j]
          /\ Len(dataDicts) \in {Len(invoked), Len(invoked) - 1}
    /\ fullDict # <<>> =>
          /\ invoked = updLogics.srcs
          /\ Len(dataDicts) = Len(invoked)
          /\ DOMAIN fullDict[1] = UNION {DOMAIN dataDicts[j] : j \in 1..Len(dataDicts)}
    /\ Len(dataDicts) < Len(invoked) =>
          /\ fullDict = <<>>
          /\ pc \notin {"bu_invoke", "bu_send", "bu_sleep"}
    /\ result \notin {"none", "running", "returned"} =>
          /\ updDicti = <<>>
          /\ ~inLoop => dicti = <<>>
    /\ \A k \in Keys : SentUnder(k, 0) = 0

\* a tick in which one source returned a record and a later one raised
C10_Witness ==
    /\ pc = "bu_return"
    /\ recovery = "exhausted"
    /\ Len(dataDicts) >= 1
    /\ Len(invoked) = Len(dataDicts) + 1
    /\ fullDict = <<>>

\* ------------------------------------------------------------------------
\* HeartRate (src/logic/heartrate.py): smoothing state and returned record
\* ------------------------------------------------------------------------
\* Metric values are fractions.  They are held as integers in units of
\* 1/Scale; Scale is chosen so that dividing by 60, halving, and MaxCalls
\* blends with decay 1/40 are all exact.  A decay is a pair <<num, den>>.

MaxCalls == 2          \* get_data_dict calls explored per instance
MaxRaw == 2            \* raw metrics are drawn from 0, 1/2, .., MaxRaw/2

Scale == 3 * 40 ^ MaxCalls
RawVals == {v * (Scale \div 2) : v \in 0..MaxRaw}

\* the scheduler is not running in a run of the HeartRate model
MainIdle ==
    /\ pc = "bi_prepare"
    /\ isMuse = TRUE
    /\ caller = "main"
    /\ inLoop = FALSE
    /\ nextId = 1
    /\ live = {}
    /\ streaming = {}
    /\ biBoard = 0
    /\ biLogics = NoLogics
    /\ mainBoard = 0
    /\ mainLogics = NoLogics
    /\ updBoard = 0
    /\ updLogics = NoLogics
    /\ dataDicts = <<>>
    /\ invoked = <<>>
    /\ fullDict = <<>>
    /\ dicti = <<>>
    /\ updDicti = <<>>
    /\ i = 0
    /\ attempts = 0
    /\ recovery = "none"
    /\ result = "none"
    /\ oscSent = <<>>
    /\ eventMark = 0
    /\ lastInit = 0
    /\ ticks = 0

\* def __init__(self, board, fft_size=1024, ema_decay=0.025)  (heartrate.py:10)
DefaultEmaDecay == <<1, 40>>

\* ema_decay = args.ema_decay / args.refresh_rate   (main.py:99)
BoardInitEmaDecay(decay, refresh) == <<decay[1], decay[2] * refresh>>

\* heart_bps = heart_bpm / 60; target_values = np.array([oxygen_level,
\* heart_bps, heart_bpm, resp_avg])   (heartrate.py:72, 98)
TargetValues(oxygen, bpm, resp) == <<oxygen, bpm \div 60, bpm, resp>>

\* utils.smooth(current_values, target_values, ema_decay):
\* (1 - decay) * previous[j] + decay * new[j] for every index j
Smooth(cur, tgt, dec) ==
    [j \in 1..Len(cur) |-> ((dec[2] - dec[1]) * cur[j] + dec[1] * tgt[j]) \div dec[2]]

\* the first call blended with a zero vector instead of adopting the target
NextValues_blendfirst(cur, tgt, dec) ==
    Smooth(IF cur = <<>> THEN <<0, 0, 0, 0>> ELSE cur, tgt, dec)

\* if not isinstance(self.current_values, np.ndarray): adopt the target
\* else: smooth   (heartrate.py:100-104)
NextValues(cur, tgt, dec) ==
    IF cur = <<>> THEN tgt ELSE Smooth(cur, tgt, dec)

\* Python int(): truncation toward zero of the value x / Scale
IntTrunc(x) == IF x >= 0 THEN x \div Scale ELSE -((-x) \div Scale)

\* int(v) without the + 0.5
RoundBpm_trunc(x) == IntTrunc(x)

\* int(ret_dict[...] + 0.5)   (heartrate.py:108-109)
RoundBpm(x) == IntTrunc(x + Scale \div 2)

\* ret_dict built from osc_param_names and current_values.tolist(), with the
\* two bpm entries rounded   (heartrate.py:97, 106-111)
RetDict(cur) ==
    [osc_oxygen_percent  |-> cur[1],
     osc_heart_bps       |-> cur[2],
     osc_heart_bpm       |-> RoundBpm(cur[3]),
     osc_respiration_bpm |-> RoundBpm(cur[4])]

InitHR ==
    /\ MainIdle
    /\ WIdle
    /\ RIdle
    /\ cfgEmaDecay \in {<<1, 1>>, <<1, 2>>}
    /\ cfgRefresh \in {1, 60}
    /\ biEmaDecay = <<>>
    /\ hrPc = "new"
    /\ hrDecay = <<>>
    /\ hrState = <<>>
    /\ hrPrev = <<>>
    /\ hrRaws = <<>>
    /\ hrRet = <<>>
    /\ hrCalls = 0
    /\ hrOutcome = "none"

\* BoardInit computes ema_decay and hands it to Focus_Relax only; the
\* HeartRate source is built as HeartRate(board), with the defaults of its
\* constructor   (main.py:99, 110, 116; heartrate.py:10, 24-26)
HR_Init ==
    /\ hrPc = "new"
    /\ biEmaDecay' = BoardInitEmaDecay(cfgEmaDecay, cfgRefresh)
    /\ hrDecay' = DefaultEmaDecay
    /\ hrState' = <<>>
    /\ hrPc' = "ready"
    /\ UNCHANGED <<cfgEmaDecay, cfgRefresh, hrPrev, hrRaws, hrRet, hrCalls,
                   hrOutcome>>
    /\ UNCHANGED <<vars, wVars, rVars>>

\* get_data_dict that stores the rounded bpm values back into the state
HR_GetDataDict_roundstate ==
    /\ hrPc = "ready"
    /\ hrCalls < MaxCalls
    /\ \E oxygen, bpm, resp \in RawVals :
          LET tgt == TargetValues(oxygen, bpm, resp)
              new == NextValues(hrState, tgt, hrDecay)
          IN /\ hrState' = <<new[1], new[2], RoundBpm(new[3]) * Scale,
                             RoundBpm(new[4]) * Scale>>
             /\ hrPrev' = hrState
             /\ hrRaws' = Append(hrRaws, tgt)
             /\ hrRet' = <<RetDict(new)>>
    /\ hrCalls' = hrCalls + 1
    /\ hrOutcome' = "returned"
    /\ UNCHANGED <<cfgEmaDecay, cfgRefresh, biEmaDecay, hrPc, hrDecay>>
    /\ UNCHANGED <<vars, wVars, rVars>>

\* get_data_dict, a call that returns (heartrate.py:76-111): the window is
\* pulled, the four raw metrics computed, the state adopted or blended, and a
\* fresh dict with the two bpm entries rounded is returned
HR_GetDataDict ==
    /\ hrPc = "ready"
    /\ hrCalls < MaxCalls
    /\ \E oxygen, bpm, resp \in RawVals :
          LET tgt == TargetValues(oxygen, bpm, resp)
              new == NextValues(hrState, tgt, hrDecay)
          IN /\ hrState' = new
             /\ hrPrev' = hrState
             /\ hrRaws' = Append(hrRaws, tgt)
             /\ hrRet' = <<RetDict(new)>>
    /\ hrCalls' = hrCalls + 1
    /\ hrOutcome' = "returned"
    /\ UNCHANGED <<cfgEmaDecay, cfgRefresh, biEmaDecay, hrPc, hrDecay>>
    /\ UNCHANGED <<vars, wVars, rVars>>

\* a failing call that drops the smoothing state
HR_GetDataDictRaises_reset ==
    /\ hrPc = "ready"
    /\ hrCalls < MaxCalls
    /\ hrCalls' = hrCalls + 1
    /\ hrOutcome' = "raised"
    /\ hrRet' = <<>>
    /\ hrState' = <<>>
    /\ UNCHANGED <<cfgEmaDecay, cfgRefresh, biEmaDecay, hrPc, hrDecay, hrPrev,
                   hrRaws>>
    /\ UNCHANGED <<vars, wVars, rVars>>

\* get_data_dict, a call that raises while pulling the window or computing
\* the raw metrics (heartrate.py:78-95): control never reaches line 100
HR_GetDataDictRaises ==
    /\ hrPc = "ready"
    /\ hrCalls < MaxCalls
    /\ hrCalls' = hrCalls + 1
    /\ hrOutcome' = "raised"
    /\ hrRet' = <<>>
    /\ UNCHANGED <<cfgEmaDecay, cfgRefresh, biEmaDecay, hrPc, hrDecay, hrState,
                   hrPrev, hrRaws>>
    /\ UNCHANGED <<vars, wVars, rVars>>

NextHR ==
    \/ HR_Init
    \/ HR_GetDataDict
    \/ HR_GetDataDictRaises

SpecHR == InitHR /\ [][NextHR]_<<vars, auxVars>>

\* every division of the model is exact: nothing is lost to the fixed point
HRExact ==
    /\ \A r \in RawVals : r % 60 = 0
    /\ hrState # <<>> => \A j \in 1..4 : hrState[j] % (40 ^ (MaxCalls - Len(hrRaws))) = 0

\* the raw vector computed by the last call that returned
LastRaw == hrRaws[Len(hrRaws)]

\* C11: run with ema_decay = 1.0, whatever the refresh rate, the smoothed
\* values the HeartRate source holds after a tick equal the raw values
\* computed in that tick.
C11_NoLagAtDecayOne ==
    (cfgEmaDecay = <<1, 1>> /\ hrOutcome = "returned") => hrState = LastRaw

\* C12: the smoothing state is absent before the first call that returns,
\* is exactly the new vector after it, and after every later one is the
\* blend (1 - decay) * previous + decay * new; once present it has 4 values.
C12_FirstAdoptsThenBlends ==
    /\ Len(hrRaws) = 0 => hrState = <<>>
    /\ Len(hrRaws) = 1 => hrState = hrRaws[1]
    /\ Len(hrRaws) >= 2 =>
          \A j \in 1..4 :
             hrDecay[2] * hrState[j] =
                (hrDecay[2] - hrDecay[1]) * hrPrev[j] + hrDecay[1] * LastRaw[j]
    /\ hrState # <<>> => Len(hrState) = 4

\* a later call whose blend differs from both the previous state and the
\* new vector
C12_Witness ==
    /\ Len(hrRaws) >= 2
    /\ hrState # LastRaw
    /\ hrState # hrPrev
    /\ Len(hrState) = 4

\* |n - x / Scale| <= 1/2: the integer n is a nearest integer of x / Scale
IsNearestInt(n, x) ==
    /\ 2 * (n * Scale - x) <= Scale
    /\ 2 * (x - n * Scale) <= Scale

\* C17: in the returned record the two bpm entries are the integers nearest
\* to the smoothed heart-rate and respiration values, and the oxygen and
\* beats-per-second entries are the smoothed values themselves.
C17_BpmRoundedToNearest ==
    hrRet # <<>> =>
        /\ IsNearestInt(hrRet[1].osc_heart_bpm, hrState[3])
        /\ IsNearestInt(hrRet[1].osc_respiration_bpm, hrState[4])
        /\ hrRet[1].osc_oxygen_percent = hrState[1]
        /\ hrRet[1].osc_heart_bps = hrState[2]

\* a record whose heart rate was rounded up from a fractional smoothed value
\* and whose respiration rate was rounded down from one
C17_Witness ==
    /\ hrRet # <<>>
    /\ hrState[3] % Scale # 0
    /\ hrRet[1].osc_heart_bpm * Scale > hrState[3]
    /\ hrState[4] % Scale # 0
    /\ hrRet[1].osc_respiration_bpm * Scale < hrState[4]

\* the smoothing state as a function of the raw vectors alone
RECURSIVE EmaFold(_, _)
EmaFold(raws, dec) ==
    IF raws = <<>> THEN <<>>
    ELSE IF Len(raws) = 1 THEN raws[1]
    ELSE LET before == EmaFold(SubSeq(raws, 1, Len(raws) - 1), dec)
         IN [j \in 1..4 |->
                ((dec[2] - dec[1]) * before[j] + dec[1] * raws[Len(raws)][j])
                    \div dec[2]]

\* C18: after any sequence of calls the smoothing state holds the unrounded
\* blend of the raw vectors of the calls so far; no rounded published value
\* enters it.
C18_StateUnrounded ==
    hrState = EmaFold(hrRaws, hrDecay)

\* a value was blended onto a state whose published bpm had been rounded to
\* a different value
C18_Witness ==
    /\ Len(hrRaws) >= 2
    /\ hrPrev[3] % Scale # 0
    /\ hrState[3] % Scale # 0
    /\ hrState[3] # LastRaw[3]

\* C19: a get_data_dict call that raises before the smoothing step leaves
\* the smoothing state as it was: absent, or the state after the last call
\* that returned.
C19_FailedCallKeepsState ==
    [][(hrCalls' = hrCalls + 1 /\ hrOutcome' = "raised") => hrState' = hrState]_hrVars

\* a call has failed after an earlier one had set the state
C19_Witness ==
    /\ hrOutcome = "raised"
    /\ hrState # <<>>
    /\ hrState = EmaFold(hrRaws, hrDecay)

\* ---------------------------------------------------------------------
\* BoardInit's startup grace period and the windows of the metric sources
\* ---------------------------------------------------------------------

\* bounds of the inputs
MaxWindow == 3
MaxRate == 3
MaxFft == 8

\* default of HeartRate.__init__'s fft_size
DefaultFftSize == 1024

WindowArgs == 1..MaxWindow
\* 64 Hz is the rate of the Muse's photoplethysmogram preset
Rates == (1..MaxRate) \cup {64}
FftSizes == (1..MaxFft) \cup {DefaultFftSize}

Max(a, b) == IF a >= b THEN a ELSE b
Min(a, b) == IF a <= b THEN a ELSE b

\* int(fft_size / self.ppg_sampling_rate) + 1: for positive integers in
\* TLC's range the float quotient truncates to the integer quotient
WindowSeconds_noslack(fft, rate) == fft \div rate
WindowSeconds(fft, rate) == (fft \div rate) + 1

\* self.ppg_sampling_rate * self.window_seconds
MaxSampleSize(rate, seconds) == rate * seconds

\* the length of the window a Telemetry or Focus_Relax source pulls
WindowSamples(rate, seconds) == rate * seconds

\* startup_time = max(startup_time, heart_window_seconds)
StartupTime_own(own, heart) == own
StartupTime(own, heart) == Max(own, heart)

\* samples of a preset the device holds after streaming for some seconds
Buffered(rate, seconds) == rate * seconds

\* get_current_board_data(n, preset) hands back at most what is buffered
Pulled(n, rate, seconds) == Min(n, Buffered(rate, seconds))

\* BoardInit is entered with the configuration and the device's properties;
\* main.py constructs HeartRate with the default fft_size, other callers of
\* the constructor may pass any positive size
InitWin ==
    /\ MainIdle
    /\ HrIdle
    /\ RIdle
    /\ wPc = "params"
    /\ wArgsWindow \in WindowArgs
    /\ wMuse \in BOOLEAN
    /\ wEegRate \in 1..MaxRate
    /\ wRate \in Rates
    /\ wFft \in FftSizes
    /\ wHeartWs = 0
    /\ wHeartMax = 0
    /\ wStartup = 0
    /\ wStreaming = FALSE
    /\ wSlept = 0
    /\ wPartial = FALSE

\* main.py:97-105: the parameters are read, the session is prepared
W_Params ==
    /\ wPc = "params"
    /\ wPc' = "logics"
    /\ wStartup' = wArgsWindow
    /\ UNCHANGED <<wArgsWindow, wMuse, wEegRate, wRate, wFft, wHeartWs,
                   wHeartMax, wStreaming, wSlept, wPartial>>
    /\ UNCHANGED <<vars, hrVars, rVars>>

\* main.py:108-119 with HeartRate.__init__ (heartrate.py:17-21): on a Muse
\* the HeartRate source is built and its window enters the startup time
W_Logics ==
    /\ wPc = "logics"
    /\ wPc' = "start"
    /\ IF wMuse
       THEN /\ wHeartWs' = WindowSeconds(wFft, wRate)
            /\ wHeartMax' = MaxSampleSize(wRate, WindowSeconds(wFft, wRate))
            /\ wStartup' = StartupTime(wStartup, WindowSeconds(wFft, wRate))
       ELSE UNCHANGED <<wHeartWs, wHeartMax, wStartup>>
    /\ UNCHANGED <<wArgsWindow, wMuse, wEegRate, wRate, wFft, wStreaming,
                   wSlept, wPartial>>
    /\ UNCHANGED <<vars, hrVars, rVars>>

\* main.py:122-126: start_stream, then time.sleep(startup_time)
W_Start ==
    /\ wPc = "start"
    /\ wPc' = "streaming"
    /\ wStreaming' = TRUE
    /\ wSlept' = wStartup
    /\ UNCHANGED <<wArgsWindow, wMuse, wEegRate, wRate, wFft, wHeartWs,
                   wHeartMax, wStartup, wPartial>>
    /\ UNCHANGED <<vars, hrVars, rVars>>

\* main.py:139 in the first board_update: every source pulls its window
W_FirstTick ==
    /\ wPc = "streaming"
    /\ wPc' = "ticked"
    /\ wPartial' =
          \/ Pulled(WindowSamples(wEegRate, wArgsWindow), wEegRate, wSlept)
                 < WindowSamples(wEegRate, wArgsWindow)
          \/ /\ wMuse
             /\ Pulled(wHeartMax, wRate, wSlept) < wHeartMax
    /\ UNCHANGED <<wArgsWindow, wMuse, wEegRate, wRate, wFft, wHeartWs,
                   wHeartMax, wStartup, wStreaming, wSlept>>
    /\ UNCHANGED <<vars, hrVars, rVars>>

NextWin ==
    \/ W_Params
    \/ W_Logics
    \/ W_Start
    \/ W_FirstTick

SpecWin == InitWin /\ [][NextWin]_<<vars, auxVars>>

\* C16: for every positive sampling rate and transform size the constructor
\* sets window_seconds to floor(fft_size / rate) + 1 and max_sample_size to
\* rate * window_seconds (17 and 1088 for 64 Hz and 1024), so the window
\* holds more than fft_size and at most fft_size + rate samples.
C16_WindowCoversTransform ==
    (wMuse /\ wPc \notin {"params", "logics"}) =>
        /\ (wHeartWs - 1) * wRate <= wFft
        /\ wFft < wHeartWs * wRate
        /\ wHeartMax = wRate * wHeartWs
        /\ wHeartMax > wFft
        /\ wHeartMax <= wFft + wRate
        /\ (wRate = 64 /\ wFft = 1024) => (wHeartWs = 17 /\ wHeartMax = 1088)

\* the constructor has run for 64 Hz and 1024
C16_Witness ==
    /\ wMuse
    /\ wPc = "start"
    /\ wRate = 64
    /\ wFft = 1024
    /\ wHeartWs = 17
    /\ wHeartMax = 1088

\* C13: no tick runs before the stream has been started and the grace
\* period, the maximum of the configured window and HeartRate's window, has
\* elapsed; with a device buffering sampling_rate samples a second no pull
\* of the first tick finds a partially filled buffer.
C13_FirstTickFindsFullWindows ==
    wPc = "ticked" =>
        /\ wStreaming
        /\ wSlept = Max(wArgsWindow, wHeartWs)
        /\ Buffered(wEegRate, wSlept) >= WindowSamples(wEegRate, wArgsWindow)
        /\ wMuse => Buffered(wRate, wSlept) >= wHeartMax
        /\ ~wPartial

\* the first tick has run on a Muse whose HeartRate window is the longer one
C13_Witness ==
    /\ wPc = "ticked"
    /\ wMuse
    /\ wHeartWs > wArgsWindow
    /\ wSlept = wHeartWs
    /\ ~wPartial

\* ---------------------------------------------------------------------
\* HeartRate.estimate_respiration: the peak of the spectrum in the band
\* ---------------------------------------------------------------------

\* bounds of the small windows: sampling rates, half the window length,
\* magnitudes; and of the peak bins tried on the 64 Hz, 1088-sample window
MaxRespRate == 2
MaxHalf == 3
MaxMag == 2
MaxPeakBin == 8

\* lowcut = 0.1 and highcut = 0.5, as fractions <<numerator, denominator>>
lowcut == <<1, 10>>
highcut == <<1, 2>>

\* len(fft_data) for a window of n samples: DataFilter.perform_fft is a
\* library call; a one-sided transform has n / 2 + 1 bins, a two-sided one n
FftLens(n) == {(n \div 2) + 1, n}

\* np.linspace(0, rate / 2, m)[k], as a fraction
FftFreq(k, rate, m) ==
    IF m = 1 THEN <<0, 1>> ELSE <<k * rate, 2 * (m - 1)>>

\* (f >= lowcut) & (f <= highcut)
InBand(f) ==
    /\ f[1] * lowcut[2] >= lowcut[1] * f[2]
    /\ f[1] * highcut[2] <= highcut[1] * f[2]

\* np.where(...): the bins of the axis whose label lies in the band
BandBins(rate, fftLen) ==
    {k \in 0..((fftLen \div 2) - 1) : InBand(FftFreq(k, rate, fftLen \div 2))}

\* position of bin k among the bins of idx, counted from 0
PosIn(idx, k) == Cardinality({j \in idx : j < k})

\* the first bin of idx of greatest magnitude
ArgMax(idx, mags) ==
    CHOOSE k \in idx :
        /\ \A j \in idx : mags[k + 1] >= mags[j + 1]
        /\ \A j \in idx : mags[j + 1] = mags[k + 1] => k <= j

\* fft_freq[idx][np.argmax(np.abs(fft_data[idx]))]: the bin whose label is
\* handed back
PeakBin_unmapped(idx, mags) == PosIn(idx, ArgMax(idx, mags))
PeakBin(idx, mags) == ArgMax(idx, mags)

\* peak_freq * 60
Bpm(f) == <<60 * f[1], f[2]>>

\* a spectrum of len bins that is 1 at bin p and 0 elsewhere
Peaked(len, p) == [k \in 1..len |-> IF k = p + 1 THEN 1 ELSE 0]

\* the call is entered with a filtered window: small windows with every
\* spectrum, and the Muse's window of 1088 samples at 64 Hz with a spectrum
\* peaked at one of the low bins
InitResp ==
    /\ MainIdle
    /\ HrIdle
    /\ WIdle
    /\ rPc = "input"
    /\ rPeak = -1
    /\ rBpm = <<>>
    /\ \/ /\ rRate \in 1..MaxRespRate
          /\ rN \in {2 * h : h \in 2..MaxHalf}
          /\ rFftLen \in FftLens(rN)
          /\ rMags \in [1..rFftLen -> 0..MaxMag]
       \/ /\ rRate = 64
          /\ rN = MaxSampleSize(64, WindowSeconds(DefaultFftSize, 64))
          /\ rFftLen \in FftLens(rN)
          /\ \E p \in 0..MaxPeakBin : rMags = Peaked(rFftLen, p)

\* heartrate.py:43: the library rejects the window
R_FftRaises ==
    /\ rPc = "input"
    /\ rPc' = "fft_raised"
    /\ UNCHANGED <<rRate, rN, rFftLen, rMags, rPeak, rBpm>>
    /\ UNCHANGED <<vars, hrVars, wVars>>

\* heartrate.py:43-48 when no label lies in the band: np.argmax of an
\* empty array raises
R_EstimateRaises ==
    /\ rPc = "input"
    /\ BandBins(rRate, rFftLen) = {}
    /\ rPc' = "raised"
    /\ UNCHANGED <<rRate, rN, rFftLen, rMags, rPeak, rBpm>>
    /\ UNCHANGED <<vars, hrVars, wVars>>

\* heartrate.py:43-51: the label of the selected bin, times 60, is returned
R_Estimate ==
    /\ rPc = "input"
    /\ BandBins(rRate, rFftLen) # {}
    /\ rPc' = "done"
    /\ rPeak' = PeakBin(BandBins(rRate, rFftLen), rMags)
    /\ rBpm' = Bpm(FftFreq(PeakBin(BandBins(rRate, rFftLen), rMags), rRate,
                           rFftLen \div 2))
    /\ UNCHANGED <<rRate, rN, rFftLen, rMags>>
    /\ UNCHANGED <<vars, hrVars, wVars>>

NextResp ==
    \/ R_FftRaises
    \/ R_EstimateRaises
    \/ R_Estimate

SpecResp == InitResp /\ [][NextResp]_<<vars, auxVars>>

Abs(x) == IF x >= 0 THEN x ELSE 0 - x

\* the bin of an n-sample transform whose frequency k * rate / n is closest
\* to 0.2 Hz
TrueClosestBin(rate, n) ==
    CHOOSE k \in 0..(n \div 2) :
        \A j \in 0..(n \div 2) : Abs(5 * k * rate - n) <= Abs(5 * j * rate - n)

\* the bin whose label on the code's axis is closest to 0.2 Hz
LabelClosestBin(rate, fftLen) ==
    LET m == fftLen \div 2
        Dist(k) == Abs(5 * FftFreq(k, rate, m)[1] - FftFreq(k, rate, m)[2])
    IN  CHOOSE k \in 0..(m - 1) : \A j \in 0..(m - 1) : Dist(k) <= Dist(j)

\* bin p is the one strict maximum of the spectrum
PeaksAt(p) ==
    /\ p + 1 \in 1..Len(rMags)
    /\ \A k \in 1..Len(rMags) : k # p + 1 => rMags[p + 1] > rMags[k]

\* C14: at 64 Hz with the 1088-sample window, when the spectrum peaks at
\* the bin closest to 0.2 Hz, the value returned (60 times the label of the
\* selected bin) is 12 breaths per minute.
C14_FifthHertzGivesTwelve ==
    ( /\ rPc = "done"
      /\ rRate = 64
      /\ rN = 1088
      /\ \/ PeaksAt(TrueClosestBin(rRate, rN))
         \/ PeaksAt(LabelClosestBin(rRate, rFftLen)) )
    => rBpm[1] = 12 * rBpm[2]

\* C15: whenever a label of the axis lies in [0.1, 0.5] Hz the call returns
\* 60 times the label of an in-band bin, the in-band bin of greatest
\* magnitude, which is a value in [6, 30]; it raises only when no label
\* lies in the band.
C15_ResultInBand ==
    /\ rPc = "done" =>
          /\ rPeak \in BandBins(rRate, rFftLen)
          /\ \A k \in BandBins(rRate, rFftLen) : rMags[rPeak + 1] >= rMags[k + 1]
          /\ rBpm = Bpm(FftFreq(rPeak, rRate, rFftLen \div 2))
          /\ 6 * rBpm[2] <= rBpm[1]
          /\ rBpm[1] <= 30 * rBpm[2]
    /\ rPc = "raised" => BandBins(rRate, rFftLen) = {}

\* the selected bin is not the first of the band, and a bin outside the
\* band is larger than it
C15_Witness ==
    /\ rPc = "done"
    /\ \E k \in BandBins(rRate, rFftLen) : k < rPeak
    /\ \E k \in 1..Len(rMags) :
          /\ k - 1 \notin BandBins(rRate, rFftLen)
          /\ rMags[k] > rMags[rPeak + 1]

====
